---- MODULE Spec2Model ----
(***************************************************************************)
(* Model of openspotter's real-time broadcast engine:                      *)
(*   backend/app/websocket/manager.py   LocationManager, ChatManager       *)
(*   backend/app/routers/locations.py   websocket_location                 *)
(*   backend/app/routers/messages.py    websocket_chat                     *)
(*                                                                         *)
(* The server is one asyncio event loop: a coroutine runs atomically       *)
(* between two awaits that really suspend.  One action of the model is one *)
(* such atomic stretch of one endpoint coroutine (a "supervisor").  The    *)
(* awaits that only touch the coroutine's own request (db.flush,           *)
(* db.refresh, db.execute) are folded into the stretch that follows them;  *)
(* the awaits on websocket.receive_json and ws.send_json are the           *)
(* suspension points at which other supervisors interleave.                *)
(***************************************************************************)
EXTENDS Integers, Sequences, FiniteSets, Bags, TLC

(* ---------------------------- bounds ----------------------------------- *)
NUsers == 3
NSock == 3
NChannels == 2
\* Broadcasts that may be suspended in a send at the same time.
MaxInFlight == 1
\* Connections whose peer may stop reading, and connections whose transport
\* may be closed and not yet noticed, at the same time.
MaxStalled == 1
MaxClosing == 1
\* Broadcasts whose writes are followed on the transports.
MaxFrames == 2

Users == 1..NUsers
Sockets == 1..NSock
Channels == 1..NChannels

\* Python's None (absent user, absent sink, dict.get miss).
None == 0

(* ---------------------------- roles and tiers -------------------------- *)
SPOTTER == "spotter"
VERIFIED_SPOTTER == "verified_spotter"
COORDINATOR == "coordinator"
ADMIN == "admin"
UserRole == {SPOTTER, VERIFIED_SPOTTER, COORDINATOR, ADMIN}

\* The users table: the role column of each row.  User 1 is a coordinator,
\* user 2 a spotter, user 3 a verified spotter, user 4 an admin, and so on.
RoleOf(u) ==
    CASE (u - 1) % 4 = 0 -> COORDINATOR
      [] (u - 1) % 4 = 1 -> SPOTTER
      [] (u - 1) % 4 = 2 -> VERIFIED_SPOTTER
      [] OTHER -> ADMIN

\* The values a location's visibility column takes: the three tiers and an
\* arbitrary other string a client may supply.
Tiers == {"public", "verified", "coordinators"}
VisibilityValues == Tiers \cup {"friends"}

\* The role hierarchy, messages.py role_hierarchy.
RoleLevel(role) ==
    CASE role = SPOTTER -> 0
      [] role = VERIFIED_SPOTTER -> 1
      [] role = COORDINATOR -> 2
      [] role = ADMIN -> 3

\* Channel.min_role of the stored channels: channel 1 is a coordinators'
\* channel, every other channel keeps the column's default.
MinRole(channel_id) == IF channel_id = 1 THEN COORDINATOR ELSE SPOTTER

\* The role test of the HTTP send endpoint: 403 when the sender's level is
\* below the level of the channel's min_role.
SendAllowed(role, min_role) == RoleLevel(role) >= RoleLevel(min_role)

\* A variant of can_see that opens the verified tier to every role.
CanSee_MutVerifiedAll(visibility, role) ==
    \/ visibility = "public"
    \/ visibility = "verified"
    \/ visibility = "coordinators" /\ role \in {COORDINATOR, ADMIN}

\* A variant of can_see that lets a visibility it does not know through.
CanSee_MutFailOpen(visibility, role) ==
    IF visibility = "verified"
    THEN role \in {VERIFIED_SPOTTER, COORDINATOR, ADMIN}
    ELSE IF visibility = "coordinators"
    THEN role \in {COORDINATOR, ADMIN}
    ELSE TRUE

\* broadcast_location's can_see, lines 57-70.
CanSee(visibility, role) ==
    IF visibility = "public" THEN TRUE
    ELSE IF visibility = "verified"
            /\ role \in {VERIFIED_SPOTTER, COORDINATOR, ADMIN} THEN TRUE
    ELSE IF visibility = "coordinators"
            /\ role \in {COORDINATOR, ADMIN} THEN TRUE
    ELSE FALSE

(* ---------------------------- Python dict ------------------------------ *)
\* A dict is the sequence of its <<key, value>> items in insertion order.
DictKeys(d) == {d[i][1] : i \in 1..Len(d)}
DictHas(d, k) == k \in DictKeys(d)
DictGet(d, k) ==
    IF DictHas(d, k) THEN d[CHOOSE i \in 1..Len(d) : d[i][1] = k][2] ELSE None
DictValues(d) == {d[i][2] : i \in 1..Len(d)}

\* A variant of d[k] = v that adds an item without looking for the key.
DictSet_MutAppend(d, k, v) == Append(d, <<k, v>>)

\* d[k] = v: an existing key keeps its place, a new key goes last.
DictSet(d, k, v) ==
    IF DictHas(d, k)
    THEN [i \in 1..Len(d) |-> IF d[i][1] = k THEN <<k, v>> ELSE d[i]]
    ELSE Append(d, <<k, v>>)

\* del d[k]
DictDel(d, k) == SelectSeq(d, LAMBDA item : item[1] # k)

(* ---------------------------- state ------------------------------------ *)
VARIABLES
    endpoint,            \* socket -> "none" | "location" | "chat": the route it came in on
    pc,                  \* socket -> position of its endpoint coroutine
    ws_user,             \* socket -> the `user` local of its coroutine (None before auth)
    auth_frame,          \* socket -> what its handshake was given: "unread", "valid", "invalid"
    exit,                \* socket -> how its coroutine ended: "none", "auth" (handshake
                         \*   closed it), "disconnect" (except WebSocketDisconnect),
                         \*   "error" (except Exception)
    task,                \* socket -> the broadcast its coroutine is suspended in
    loc_active_connections,   \* location_manager.active_connections
    loc_user_data,            \* location_manager.user_data
    chat_active_connections,  \* chat_manager.active_connections
    chat_user_data,           \* chat_manager.user_data
    channel_subscriptions,    \* chat_manager.channel_subscriptions
    can_see,                  \* one evaluation of broadcast_location's can_see on
                              \*   its own: the arguments and, once made, the value
    stalled,                  \* sockets whose peer has stopped reading: a send_json
                              \*   to one of them does not complete
    transport_closed,         \* sockets whose transport has closed while their
                              \*   coroutine has not yet returned to receive_json
    wire                      \* what each transport has been handed, in order, and
                              \*   the number of broadcasts each connection has begun
                              \*   (WireOff where the order is not observed)

vars == <<can_see, stalled, transport_closed, wire, endpoint, pc, ws_user, auth_frame, exit, task,
          loc_active_connections, loc_user_data,
          chat_active_connections, chat_user_data, channel_subscriptions>>

netVars == <<can_see, stalled, transport_closed>>
envVars == <<netVars, wire>>
locVars == <<loc_active_connections, loc_user_data>>
chatVars == <<chat_active_connections, chat_user_data, channel_subscriptions>>

Idle == [kind |-> "idle"]

\* Connections whose handshake has succeeded (connect has run for them), and
\* connections whose endpoint coroutine has returned.
Connected == {w \in Sockets : ws_user[w] # None}
Closed == {w \in Sockets : pc[w] = "closed"}

\* Among the connections of `among`, those whose identity a later connection
\* of `among` has logged in with on the same route.
SupersededIn(among) ==
    {w \in among : \E s \in among : /\ s > w
                                     /\ endpoint[s] = endpoint[w]
                                     /\ ws_user[s] = ws_user[w]}

(* ---------------------------- handshake -------------------------------- *)
\* The first frame of a connection, as the handshake reads it: whether it
\* carries a token, whether decode_token accepts the token (signature and
\* expiry), the token's "type" and "sub", and the is_active column of the
\* users row that "sub" names.  sub = NUsers + 1 names no row.
AuthFrame(token, valid, type, sub, active) ==
    [token |-> token, valid |-> valid, type |-> type, sub |-> sub, active |-> active]

\* The first frames tried: one without a token, one whose token does not
\* decode, a refresh token, an access token of an unknown user and one of a
\* deactivated user, and a good access token of each user.
AuthFrames ==
    {AuthFrame(FALSE, FALSE, "access", 1, TRUE),
     AuthFrame(TRUE, FALSE, "access", 1, TRUE),
     AuthFrame(TRUE, TRUE, "refresh", 1, TRUE),
     AuthFrame(TRUE, TRUE, "access", NUsers + 1, TRUE),
     AuthFrame(TRUE, TRUE, "access", 1, FALSE)}
    \cup {AuthFrame(TRUE, TRUE, "access", u, TRUE) : u \in Users}

\* A variant of the handshake that does not look at the token's "type".
AuthUser_MutAnyKind(f) ==
    IF ~f.token THEN None
    ELSE IF ~f.valid THEN None
    ELSE IF f.sub \notin Users \/ ~f.active THEN None
    ELSE f.sub

\* websocket_chat lines 301-326, websocket_location lines 166-191: the user
\* the handshake yields, None where it closes the connection.
AuthUser(f) ==
    IF ~f.token THEN None
    ELSE IF ~f.valid \/ f.type # "access" THEN None
    ELSE IF f.sub \notin Users \/ ~f.active THEN None
    ELSE f.sub

\* What a connection presented, by the handshake's contract.
Credential(f) ==
    IF f.token /\ f.valid /\ f.type = "access" /\ f.sub \in Users /\ f.active
    THEN "valid" ELSE "invalid"

\* A client opens a connection to one of the two /ws routes and the endpoint
\* accepts it (line 298 / 163).  A handshake touches nothing shared before
\* it registers the connection, so connections are numbered in the order in
\* which their handshakes end, and one handshake is shown at a time.
Accept(s, route) ==
    /\ pc[s] = "connecting"
    /\ \A s2 \in Sockets : s2 < s => pc[s2] \notin {"connecting", "authenticating"}
    /\ endpoint' = [endpoint EXCEPT ![s] = route]
    /\ pc' = [pc EXCEPT ![s] = "authenticating"]
    /\ UNCHANGED <<envVars, ws_user, auth_frame, exit, task, locVars, chatVars>>

\* The peer goes away before its first frame: receive_json raises in the
\* handshake, except Exception -> close, return.
AuthDisconnected(s) ==
    /\ pc[s] = "authenticating"
    /\ auth_frame' = [auth_frame EXCEPT ![s] = "invalid"]
    /\ pc' = [pc EXCEPT ![s] = "closed"]
    /\ exit' = [exit EXCEPT ![s] = "auth"]
    /\ UNCHANGED <<envVars, endpoint, ws_user, task, locVars, chatVars>>

\* The handshake rejects the first frame: websocket.close(code=4001), return.
AuthReject(s, f) ==
    /\ pc[s] = "authenticating"
    /\ AuthUser(f) = None
    /\ auth_frame' = [auth_frame EXCEPT ![s] = Credential(f)]
    /\ pc' = [pc EXCEPT ![s] = "closed"]
    /\ exit' = [exit EXCEPT ![s] = "auth"]
    /\ UNCHANGED <<envVars, endpoint, ws_user, task, locVars, chatVars>>

(* ---------------------------- outbound events ------------------------- *)
\* What a frame may carry under a key such as "user_id" or "sender_id": no
\* such key, or an identity other than the one its connection logged in with.
ClientIds(user) == {None, (user % NUsers) + 1}

\* A variant that takes the sender from the frame when the frame names one.
FrameSender_MutTrustClient(user, claimed) ==
    IF claimed # None THEN claimed ELSE user

\* The sender an endpoint passes on for a frame: Location(user_id=user.id, ..)
\* and broadcast_location(user, ..), stop_sharing(user) (locations.py 201-220),
\* Message(sender_id=user.id, ..) and broadcast_message(user, ..) (messages.py
\* 336-349).  No key of the frame is read for it.
FrameSender(user, claimed) == user

\* The payloads, manager.py lines 33-46, 80-83 and 143-159, as far as they
\* identify anybody: the sender's id and role; the coordinates and the
\* content stand for the rest.
LocationPayload(user) ==
    [type |-> "location_update", user_id |-> user, role |-> RoleOf(user),
     coordinates |-> "coordinates"]

StoppedPayload(user) == [type |-> "location_stopped", user_id |-> user]

\* msg_data: the sender block, the channel and the content.  The remaining
\* fields are copied from the stored message and bear on no routing decision.
ChatPayload(sender, channel_id) ==
    [type |-> "chat_message", sender_id |-> sender, role |-> RoleOf(sender),
     channel_id |-> channel_id, content |-> "content"]

(* ---------------------------- send failures --------------------------- *)
\* A variant without the except clauses: the exception leaves the broadcast.
OnSendError_MutUncaught(kind) == "raise"

\* What each broadcast does with an exception of `await ws.send_json(..)`:
\* the except clause around the send.  manager.py lines 75-76 (location),
\* 89-90 (stop), 169-170 (channel), 177-178 and 185-186 (direct).
OnSendError(kind) == IF kind = "location" THEN "disconnect" ELSE "pass"

(* ---------------------------- LocationManager -------------------------- *)
\* What `await manager.connect(websocket, user)` evaluates to, for either
\* manager: connect has no return statement.
ConnectReturn(ac, u) == None

\* LocationManager.connect, lines 19-22.
LocConnect(s, u) ==
    /\ loc_active_connections' = DictSet(loc_active_connections, u, s)
    /\ loc_user_data' = DictSet(loc_user_data, u, u)

\* What a disconnect that raises KeyError leaves in place of a dict: no dict
\* of the program has an item of the key None.
KeyError == <<<<None, None>>>>

\* A variant of disconnect without the membership test: del raises KeyError
\* when the key is not there.
LocDisconnectAC_MutUnguarded(ac, websocket, u) ==
    IF DictHas(ac, u) THEN DictDel(ac, u) ELSE KeyError

\* A variant of disconnect that leaves user_data alone.
LocDisconnectUD_MutKeep(ud, websocket, u) == ud

\* LocationManager.disconnect, lines 24-29, as a function of the two dicts.
LocDisconnectAC(ac, websocket, u) == IF DictHas(ac, u) THEN DictDel(ac, u) ELSE ac
LocDisconnectUD(ud, websocket, u) == IF DictHas(ud, u) THEN DictDel(ud, u) ELSE ud

LocDisconnect(websocket, u) ==
    /\ loc_active_connections' = LocDisconnectAC(loc_active_connections, websocket, u)
    /\ loc_user_data' = LocDisconnectUD(loc_user_data, websocket, u)

\* A variant of the guards that lets a stop notice through to coordinators
\* and admins only.
LocEligible_MutStopByRole(kind, sender, visibility, ud, item) ==
    /\ item[1] # sender
    /\ IF kind = "location"
       THEN /\ DictGet(ud, item[1]) # None
            /\ CanSee(visibility, RoleOf(DictGet(ud, item[1])))
       ELSE RoleOf(item[1]) \in {COORDINATOR, ADMIN}

\* A variant of the guards without the test that skips the sender.
LocEligible_MutEchoSender(kind, sender, visibility, ud, item) ==
    kind = "location" =>
        /\ DictGet(ud, item[1]) # None
        /\ CanSee(visibility, RoleOf(DictGet(ud, item[1])))

\* The loop body's guards before the send, lines 49-72 (broadcast_location)
\* and line 86 (stop_sharing), for one item of the snapshot.
LocEligible(kind, sender, visibility, ud, item) ==
    IF kind = "location"
    THEN /\ item[1] # sender
         /\ DictGet(ud, item[1]) # None
         /\ CanSee(visibility, RoleOf(DictGet(ud, item[1])))
    ELSE item[1] # sender

\* Index of the first item the loop sends to, 0 when it runs off the end.
FirstEligible(kind, sender, visibility, ud, items) ==
    LET idx == {i \in 1..Len(items) :
                    LocEligible(kind, sender, visibility, ud, items[i])}
    IN IF idx = {} THEN 0 ELSE CHOOSE i \in idx : \A j \in idx : i <= j

\* `await ws.send_json(..)`: the payload is
\* handed to the sink's transport and the coroutine suspends.  The transport
\* takes it (delivered) or the send raises (peer gone, transport closed),
\* which the coroutine sees when it resumes.  A send to a connection whose
\* endpoint has returned always raises: the server has closed its transport.
\* t.sent and t.dropped are the history of the call: the bag of the sinks
\* written, and the bag of the sinks whose send raised.  t.connected0 and
\* t.closed0 are Connected and Closed as they were when the call began.
Send(t, ws, delivered) ==
    [t EXCEPT !.failed = ~delivered,
              !.sent = IF delivered THEN t.sent (+) SetToBag({ws}) ELSE t.sent,
              !.dropped = IF delivered THEN t.dropped ELSE t.dropped (+) SetToBag({ws})]

Sends(t, ws) ==
    {Send(t, ws, delivered) :
        delivered \in IF pc[ws] = "closed" THEN {FALSE} ELSE BOOLEAN}

\* The loop runs from the head of t.items to its next `await ws.send_json`
\* or off the end of the snapshot: the set of the possible continuations,
\* a task suspended in a send or Idle.
LocRun(t, ud) ==
    LET i == FirstEligible(t.kind, t.sender, t.visibility, ud, t.items)
    IN IF i = 0 THEN {Idle}
       ELSE Sends([t EXCEPT !.cur = t.items[i],
                            !.items = SubSeq(t.items, i + 1, Len(t.items))],
                  t.items[i][2])

\* broadcast_location / stop_sharing up to the first suspension: the payload
\* is built and list(self.active_connections.items()) is taken.
LocStart(kind, sender, visibility) ==
    [kind |-> kind, sender |-> sender, visibility |-> visibility,
     payload |-> IF kind = "location" THEN LocationPayload(sender)
                 ELSE StoppedPayload(sender),
     snapshot |-> loc_active_connections, items |-> loc_active_connections,
     cur |-> <<None, None>>, failed |-> FALSE,
     sent |-> EmptyBag, dropped |-> EmptyBag,
     connected0 |-> Connected, closed0 |-> Closed]

(* ---------------------------- websocket_location ----------------------- *)
\* users.share_location_with, the default of a location's visibility.
ShareLocationWith(u) ==
    CASE u % 3 = 1 -> "verified"
      [] u % 3 = 2 -> "public"
      [] OTHER -> "coordinators"

\* The visibility of the Location a location_update frame is stored with:
\* data.get("visibility", user.share_location_with).  "absent": no such key.
FrameVisibility(visibility, u) ==
    IF visibility = "absent" THEN ShareLocationWith(u) ELSE visibility

\* LocationUpdate.visibility as the request body of POST /locations/update is
\* parsed: the field's default where the body has no such key.  "null": the
\* body gives the key the value null.
SchemaVisibility(visibility) ==
    IF visibility = "absent" THEN "public" ELSE visibility

\* The visibility update_location stores the Location with:
\* data.visibility or user.share_location_with.
HttpVisibility(visibility, u) ==
    LET parsed == SchemaVisibility(visibility)
    IN IF parsed = "null" THEN ShareLocationWith(u) ELSE parsed

\* Handshake succeeds: location_manager.connect, line 194.
LocAuthenticate(s, f) ==
    /\ pc[s] = "authenticating"
    /\ endpoint[s] = "location"
    /\ AuthUser(f) # None
    /\ LocConnect(s, AuthUser(f))
    /\ ws_user' = [ws_user EXCEPT ![s] = AuthUser(f)]
    /\ auth_frame' = [auth_frame EXCEPT ![s] = Credential(f)]
    /\ pc' = [pc EXCEPT ![s] = "active"]
    /\ UNCHANGED <<envVars, endpoint, exit, task, chatVars>>

\* A coroutine that starts a broadcast either suspends in it or, when the
\* loop sends to nobody, is back at receive_json at once.
InFlight == Cardinality({s \in Sockets : pc[s] = "broadcast"})

\* The transports as an observer sees them: got[w] is the sequence of the
\* events written to the transport of w, each named by the connection that
\* sent it and the number of that connection's broadcast; seq[s] is the
\* number of broadcasts the connection s has begun.
WireOff == [kind |-> "off"]
WireEmpty == [kind |-> "on", seq |-> [s \in Sockets |-> 0],
              got |-> [w \in Sockets |-> <<>>]]

\* The number of broadcasts begun so far, over all connections.
Begun ==
    Cardinality({e \in Sockets \X (1..MaxFrames) : e[2] <= wire.seq[e[1]]})

\* A variant of the transport that hands the latest write over first.
WireWrite_MutPrepend(got, event) == <<event>> \o got

\* send_json hands an event to the transport after those handed before.
WireWrite(got, event) == Append(got, event)

\* The writes of the step that takes the broadcast of s to t.
WireStep(s, t) ==
    IF wire = WireOff \/ t = Idle THEN UNCHANGED wire
    ELSE LET starting == pc[s] # "broadcast"
             no == IF starting THEN wire.seq[s] + 1 ELSE wire.seq[s]
             written == BagToSet(t.sent (-)
                                 (IF starting THEN EmptyBag ELSE task[s].sent))
         IN /\ starting => Begun < MaxFrames
            /\ wire' = [wire EXCEPT
                          !.seq[s] = no,
                          !.got = [w \in Sockets |->
                                     IF w \in written
                                     THEN WireWrite(wire.got[w], <<s, no>>)
                                     ELSE wire.got[w]]]

Suspend(s, t) ==
    /\ t # Idle /\ pc[s] # "broadcast" => InFlight < MaxInFlight
    /\ task' = [task EXCEPT ![s] = t]
    /\ pc' = [pc EXCEPT ![s] = IF t = Idle THEN "active" ELSE "broadcast"]
    /\ WireStep(s, t)

\* A variant in which the except clauses sit inside the loop: after
\* disconnect the coroutine goes back to receive_json.
LocTeardown_MutContinue(s, clause) ==
    /\ LocDisconnect(s, ws_user[s])
    /\ pc' = [pc EXCEPT ![s] = "active"]
    /\ exit' = [exit EXCEPT ![s] = clause]
    /\ task' = [task EXCEPT ![s] = Idle]
    /\ UNCHANGED <<envVars, endpoint, ws_user, auth_frame, chatVars>>

\* The coroutine ends in an except clause of the receive loop (lines 222-226):
\* location_manager.disconnect(websocket, user), then the endpoint returns and
\* the server closes the transport.
LocTeardown(s, clause) ==
    /\ LocDisconnect(s, ws_user[s])
    /\ pc' = [pc EXCEPT ![s] = "closed"]
    /\ exit' = [exit EXCEPT ![s] = clause]
    /\ task' = [task EXCEPT ![s] = Idle]
    /\ UNCHANGED <<envVars, endpoint, ws_user, auth_frame, chatVars>>

\* {"type": "location_update", "latitude": .., "longitude": .., ["visibility": v]},
\* lines 200-216.  visibility = "absent": the frame has no such key.
LocUpdate(s, visibility, user_id) ==
    /\ pc[s] = "active"
    /\ endpoint[s] = "location"
    /\ LET v == FrameVisibility(visibility, ws_user[s])
       IN \E t \in LocRun(LocStart("location", FrameSender(ws_user[s], user_id), v),
                          loc_user_data) :
              Suspend(s, t)
    /\ UNCHANGED <<netVars, endpoint, ws_user, auth_frame, exit, locVars, chatVars>>

\* {"type": "stop_sharing"}, lines 218-220.
LocStop(s, user_id) ==
    /\ pc[s] = "active"
    /\ endpoint[s] = "location"
    /\ \E t \in LocRun(LocStart("stop", FrameSender(ws_user[s], user_id), "public"),
                       loc_user_data) :
            Suspend(s, t)
    /\ UNCHANGED <<netVars, endpoint, ws_user, auth_frame, exit, locVars, chatVars>>

\* A frame whose "type" is neither: no branch of lines 200-220 is taken.
LocUnknownFrame(s) ==
    /\ pc[s] = "active"
    /\ endpoint[s] = "location"
    /\ UNCHANGED vars

\* A location_update without "latitude" (data["latitude"] raises KeyError),
\* or a frame that is not a JSON object: except Exception, lines 224-226.
LocMalformedFrame(s) ==
    /\ pc[s] = "active"
    /\ endpoint[s] = "location"
    /\ LocTeardown(s, "error")

\* receive_json raises WebSocketDisconnect: lines 222-223.
LocReceiveDisconnect(s) ==
    /\ pc[s] = "active"
    /\ endpoint[s] = "location"
    /\ LocTeardown(s, "disconnect")

\* The awaited send_json returns or raises.  A raise is caught around the
\* send: broadcast_location calls self.disconnect(ws, client_user) (lines
\* 75-76), stop_sharing passes (lines 89-90).  Then the loop runs on to its
\* next send or to its end.  (A raise that left the call would end in the
\* receive loop's except Exception.)
LocResume(s) ==
    /\ pc[s] = "broadcast"
    /\ task[s].kind \in {"location", "stop"}
    /\ LET t == task[s]
           handler == IF t.failed THEN OnSendError(t.kind) ELSE "pass"
           ud == IF handler = "disconnect"
                 THEN LocDisconnectUD(loc_user_data, t.cur[2], t.cur[1])
                 ELSE loc_user_data
       IN IF handler = "raise"
          THEN LocTeardown(s, "error")
          ELSE /\ IF handler = "disconnect"
                  THEN LocDisconnect(t.cur[2], t.cur[1])
                  ELSE UNCHANGED locVars
               /\ \E t2 \in LocRun(t, ud) : Suspend(s, t2)
               /\ UNCHANGED <<netVars, endpoint, ws_user, auth_frame, exit, chatVars>>

(* ---------------------------- ChatManager ------------------------------ *)
\* ChatManager.connect, lines 101-104.
ChatConnect(s, u) ==
    /\ chat_active_connections' = DictSet(chat_active_connections, u, s)
    /\ chat_user_data' = DictSet(chat_user_data, u, u)
    /\ UNCHANGED channel_subscriptions

\* ChatManager.disconnect, lines 106-115, as a function of each structure.
ChatDisconnectAC(ac, websocket, u) == IF DictHas(ac, u) THEN DictDel(ac, u) ELSE ac
ChatDisconnectUD(ud, websocket, u) == IF DictHas(ud, u) THEN DictDel(ud, u) ELSE ud

\* A variant that discards the user from the first channel only.
ChatDisconnectSubs_MutFirstOnly(subs, websocket, u) ==
    [c \in DOMAIN subs |->
        IF \A d \in DOMAIN subs : c <= d THEN subs[c] \ {u} ELSE subs[c]]

\* Lines 113-115: the user is discarded from every channel's set.
ChatDisconnectSubs(subs, websocket, u) == [c \in DOMAIN subs |-> subs[c] \ {u}]

ChatDisconnect(websocket, u) ==
    /\ chat_active_connections' =
            ChatDisconnectAC(chat_active_connections, websocket, u)
    /\ chat_user_data' = ChatDisconnectUD(chat_user_data, websocket, u)
    /\ channel_subscriptions' =
            ChatDisconnectSubs(channel_subscriptions, websocket, u)

\* The lookup loop of join_channel / leave_channel, lines 119-123 and 132-136:
\* the key of the first item whose value is this websocket.
FindUser(ac, websocket) ==
    LET idx == {i \in 1..Len(ac) : ac[i][2] = websocket}
    IN IF idx = {} THEN None
       ELSE ac[CHOOSE i \in idx : \A j \in idx : i <= j][1]

\* A variant of join_channel that admits only roles the channel's min_role
\* allows.
JoinChannel_MutMinRole(subs, ac, websocket, channel_id) ==
    LET user_id == FindUser(ac, websocket)
    IN IF user_id # None /\ SendAllowed(RoleOf(user_id), MinRole(channel_id))
       THEN [c \in DOMAIN subs \cup {channel_id} |->
                IF c = channel_id
                THEN (IF c \in DOMAIN subs THEN subs[c] ELSE {}) \cup {user_id}
                ELSE subs[c]]
       ELSE subs

\* A variant of join_channel that subscribes the identity the connection
\* logged in with, without looking the websocket up in the registry.
JoinChannel_MutUnregistered(subs, ac, websocket, channel_id) ==
    [c \in DOMAIN subs \cup {channel_id} |->
        IF c = channel_id
        THEN (IF c \in DOMAIN subs THEN subs[c] ELSE {}) \cup {ws_user[websocket]}
        ELSE subs[c]]

\* ChatManager.join_channel, lines 117-128.
JoinChannel(subs, ac, websocket, channel_id) ==
    LET user_id == FindUser(ac, websocket)
    IN IF user_id # None
       THEN [c \in DOMAIN subs \cup {channel_id} |->
                IF c = channel_id
                THEN (IF c \in DOMAIN subs THEN subs[c] ELSE {}) \cup {user_id}
                ELSE subs[c]]
       ELSE subs

\* A variant of leave_channel that unsubscribes the identity the connection
\* logged in with, without looking the websocket up in the registry.
LeaveChannel_MutUnregistered(subs, ac, websocket, channel_id) ==
    IF channel_id \in DOMAIN subs
    THEN [subs EXCEPT ![channel_id] = subs[channel_id] \ {ws_user[websocket]}]
    ELSE subs

\* A variant of leave_channel that unsubscribes the user from every channel.
LeaveChannel_MutAllChannels(subs, ac, websocket, channel_id) ==
    LET user_id == FindUser(ac, websocket)
    IN IF user_id # None /\ channel_id \in DOMAIN subs
       THEN [c \in DOMAIN subs |-> subs[c] \ {user_id}]
       ELSE subs

\* ChatManager.leave_channel, lines 130-139.
LeaveChannel(subs, ac, websocket, channel_id) ==
    LET user_id == FindUser(ac, websocket)
    IN IF user_id # None /\ channel_id \in DOMAIN subs
       THEN [subs EXCEPT ![channel_id] = subs[channel_id] \ {user_id}]
       ELSE subs

\* broadcast_message, channel branch (lines 161-170), from one resumption to
\* the next suspension.  `subscribers` is the channel's own set object, so the
\* loop iterates the set as it is now.  A set iterator raises RuntimeError
\* when the set's size differs from the size at the start of the iteration;
\* otherwise it yields a member it has not yielded.  Members that were in the
\* set at the start and still are get yielded before the iterator ends; a
\* member added meanwhile may or may not be.  The result is the set of the
\* possible continuations: a task suspended in a send, Idle (the loop ended)
\* or Raised.
Raised == [kind |-> "raised"]

\* A variant of the channel branch that goes through the registry's keys
\* instead of the channel's subscribers.
ChannelRun_MutAllRegistered(t, subs, ac) ==
    LET now == subs[t.channel]
        todo == DictKeys(ac) \ t.visited
    IN IF Cardinality(now) # Cardinality(t.set0) THEN {Raised}
       ELSE UNION {Sends([t EXCEPT !.visited = t.visited \cup {u}], DictGet(ac, u)) :
                   u \in todo}
            \cup (IF todo = {} THEN {Idle} ELSE {})

ChannelRun(t, subs, ac) ==
    LET now == subs[t.channel]
        todo == now \ t.visited
    IN IF Cardinality(now) # Cardinality(t.set0) THEN {Raised}
       ELSE UNION {IF DictGet(ac, u) # None
                   THEN Sends([t EXCEPT !.visited = t.visited \cup {u}],
                              DictGet(ac, u))
                   ELSE {[t EXCEPT !.visited = t.visited \cup {u},
                                   !.failed = FALSE]} :
                   u \in todo}
            \cup (IF todo \cap t.set0 = {} THEN {Idle} ELSE {})

\* A variant of the direct branch without the echo to the sender.
DirectRun_MutNoEcho(t, ac) ==
    IF t.stage = "start" /\ DictGet(ac, t.recipient) # None
    THEN Sends([t EXCEPT !.stage = "recipient"], DictGet(ac, t.recipient))
    ELSE {Idle}

\* A variant of the direct branch that holds a message whose recipient has
\* no connection until the recipient registers.
DirectRun_MutRetry(t, ac) ==
    IF t.stage = "start"
    THEN IF DictGet(ac, t.recipient) # None
         THEN Sends([t EXCEPT !.stage = "recipient"], DictGet(ac, t.recipient))
         ELSE {t}
    ELSE IF t.stage = "recipient" /\ DictGet(ac, t.sender) # None
    THEN Sends([t EXCEPT !.stage = "echo"], DictGet(ac, t.sender))
    ELSE {Idle}

\* broadcast_message, direct branch (lines 171-186): the send to the
\* recipient's sink, then the echo to the sender's sink, each looked up when
\* it is reached.
DirectRun(t, ac) ==
    IF t.stage = "start" /\ DictGet(ac, t.recipient) # None
    THEN Sends([t EXCEPT !.stage = "recipient"], DictGet(ac, t.recipient))
    ELSE IF t.stage \in {"start", "recipient"} /\ DictGet(ac, t.sender) # None
    THEN Sends([t EXCEPT !.stage = "echo"], DictGet(ac, t.sender))
    ELSE {Idle}

\* broadcast_message(sender, message) up to its first suspension.
\* channel_id / recipient_id are None where the message has none.
ChatStart(sender, channel_id, recipient_id, subs, ac) ==
    IF channel_id # None
    THEN IF channel_id \in DOMAIN subs
         THEN ChannelRun([kind |-> "channel", sender |-> sender,
                          payload |-> ChatPayload(sender, channel_id),
                          channel |-> channel_id, set0 |-> subs[channel_id],
                          visited |-> {}, failed |-> FALSE,
                          sent |-> EmptyBag, dropped |-> EmptyBag,
                          connected0 |-> Connected, closed0 |-> Closed],
                         subs, ac)
         ELSE {Idle}
    ELSE IF recipient_id # None
    THEN DirectRun([kind |-> "direct", sender |-> sender,
                    payload |-> ChatPayload(sender, channel_id),
                    recipient |-> recipient_id, stage |-> "start",
                    failed |-> FALSE,
                    sent |-> EmptyBag, dropped |-> EmptyBag,
                    connected0 |-> Connected, closed0 |-> Closed], ac)
    ELSE {Idle}

\* The continuations of a suspended broadcast_message.
ChatRun(t, subs, ac) ==
    IF t.kind = "channel" THEN ChannelRun(t, subs, ac) ELSE DirectRun(t, ac)

(* ---------------------------- websocket_chat --------------------------- *)
\* Handshake succeeds: chat_manager.connect, line 329.  No code of the chat
\* endpoint reads a user's role, so users are interchangeable there: the s-th
\* connection logs in as one of the first s users.
ChatAuthenticate(s, f) ==
    /\ pc[s] = "authenticating"
    /\ endpoint[s] = "chat"
    /\ AuthUser(f) # None
    /\ AuthUser(f) <= s
    /\ ChatConnect(s, AuthUser(f))
    /\ ws_user' = [ws_user EXCEPT ![s] = AuthUser(f)]
    /\ auth_frame' = [auth_frame EXCEPT ![s] = Credential(f)]
    /\ pc' = [pc EXCEPT ![s] = "active"]
    /\ UNCHANGED <<envVars, endpoint, exit, task, locVars>>

\* A variant in which both endpoints share one manager: the teardown of a
\* chat connection also takes the identity out of the location registry.
ChatTeardown_MutSharedManager(s, clause) ==
    /\ ChatDisconnect(s, ws_user[s])
    /\ LocDisconnect(s, ws_user[s])
    /\ pc' = [pc EXCEPT ![s] = "closed"]
    /\ exit' = [exit EXCEPT ![s] = clause]
    /\ task' = [task EXCEPT ![s] = Idle]
    /\ UNCHANGED <<envVars, endpoint, ws_user, auth_frame>>

\* The coroutine ends in an except clause of the receive loop (lines 357-361):
\* chat_manager.disconnect(websocket, user), then the endpoint returns and the
\* server closes the transport.
ChatTeardown(s, clause) ==
    /\ ChatDisconnect(s, ws_user[s])
    /\ pc' = [pc EXCEPT ![s] = "closed"]
    /\ exit' = [exit EXCEPT ![s] = clause]
    /\ task' = [task EXCEPT ![s] = Idle]
    /\ UNCHANGED <<envVars, endpoint, ws_user, auth_frame, locVars>>

\* {"type": "message", "content": .., ["channel_id": c], ["recipient_id": r]},
\* lines 335-349.
ChatMessage(s, channel_id, recipient_id, sender_id) ==
    /\ pc[s] = "active"
    /\ endpoint[s] = "chat"
    /\ \E t \in ChatStart(FrameSender(ws_user[s], sender_id), channel_id, recipient_id,
                          channel_subscriptions, chat_active_connections) :
            Suspend(s, t)
    /\ UNCHANGED <<netVars, endpoint, ws_user, auth_frame, exit, locVars, chatVars>>

\* {"type": "join_channel", "channel_id": c}, lines 351-352.
ChatJoin(s, channel_id) ==
    /\ pc[s] = "active"
    /\ endpoint[s] = "chat"
    /\ channel_subscriptions' =
            JoinChannel(channel_subscriptions, chat_active_connections, s, channel_id)
    /\ UNCHANGED <<envVars, endpoint, pc, ws_user, auth_frame, exit, task, locVars,
                   chat_active_connections, chat_user_data>>

\* {"type": "leave_channel", "channel_id": c}, lines 354-355.
ChatLeave(s, channel_id) ==
    /\ pc[s] = "active"
    /\ endpoint[s] = "chat"
    /\ channel_subscriptions' =
            LeaveChannel(channel_subscriptions, chat_active_connections, s, channel_id)
    /\ UNCHANGED <<envVars, endpoint, pc, ws_user, auth_frame, exit, task, locVars,
                   chat_active_connections, chat_user_data>>

\* A frame whose "type" is none of the three: no branch is taken.
ChatUnknownFrame(s) ==
    /\ pc[s] = "active"
    /\ endpoint[s] = "chat"
    /\ UNCHANGED vars

\* A message without "content", a join_channel / leave_channel without
\* "channel_id" (KeyError), an identifier UUID() cannot parse (ValueError), or
\* a frame that is not a JSON object: except Exception, lines 359-361.
ChatMalformedFrame(s) ==
    /\ pc[s] = "active"
    /\ endpoint[s] = "chat"
    /\ ChatTeardown(s, "error")

\* receive_json raises WebSocketDisconnect: lines 357-358.
ChatReceiveDisconnect(s) ==
    /\ pc[s] = "active"
    /\ endpoint[s] = "chat"
    /\ ChatTeardown(s, "disconnect")

\* The awaited send_json returns or raises (except Exception: pass), and the
\* broadcast runs on.  A RuntimeError of the set iterator is not caught in
\* broadcast_message: it reaches the receive loop's except Exception, as would
\* a raise of the send that left the call.
ChatResume(s) ==
    /\ pc[s] = "broadcast"
    /\ task[s].kind \in {"channel", "direct"}
    /\ \E t \in ChatRun(task[s], channel_subscriptions, chat_active_connections) :
            IF t = Raised \/ (task[s].failed /\ OnSendError(task[s].kind) = "raise")
            THEN ChatTeardown(s, "error")
            ELSE /\ Suspend(s, t)
                 /\ UNCHANGED <<netVars, endpoint, ws_user, auth_frame, exit, locVars,
                                chatVars>>

(* ---------------------------- specifications --------------------------- *)
\* Both managers empty (lines 15-17, 96-99, 190-191), no client yet.
InitServer ==
    /\ endpoint = [s \in Sockets |-> "none"]
    /\ pc = [s \in Sockets |-> "connecting"]
    /\ exit = [s \in Sockets |-> "none"]
    /\ ws_user = [s \in Sockets |-> None]
    /\ auth_frame = [s \in Sockets |-> "unread"]
    /\ task = [s \in Sockets |-> Idle]
    /\ loc_active_connections = <<>>
    /\ loc_user_data = <<>>
    /\ chat_active_connections = <<>>
    /\ chat_user_data = <<>>
    /\ channel_subscriptions = [c \in {} |-> {}]
    /\ stalled = {}
    /\ transport_closed = {}

NoDecision == [kind |-> "none"]

Init == InitServer /\ can_see = NoDecision /\ wire = WireOff

\* The location endpoint alone.
NextLoc ==
    \E s \in Sockets :
        \/ Accept(s, "location")
        \/ AuthDisconnected(s)
        \/ \E f \in AuthFrames : AuthReject(s, f)
        \/ \E f \in AuthFrames : LocAuthenticate(s, f)
        \/ \E v \in VisibilityValues \cup {"absent"}, id \in ClientIds(ws_user[s]) :
                LocUpdate(s, v, id)
        \/ \E id \in ClientIds(ws_user[s]) : LocStop(s, id)
        \/ LocUnknownFrame(s)
        \/ LocMalformedFrame(s)
        \/ LocReceiveDisconnect(s)
        \/ LocResume(s)

SpecLoc == Init /\ [][NextLoc]_vars

\* The chat endpoint alone.
NextChat ==
    \E s \in Sockets :
        \/ Accept(s, "chat")
        \/ AuthDisconnected(s)
        \/ \E f \in AuthFrames : AuthReject(s, f)
        \/ \E f \in AuthFrames : ChatAuthenticate(s, f)
        \/ \E c \in Channels \cup {None}, r \in Users \cup {None},
                id \in ClientIds(ws_user[s]) : ChatMessage(s, c, r, id)
        \/ \E c \in Channels : ChatJoin(s, c)
        \/ \E c \in Channels : ChatLeave(s, c)
        \/ ChatUnknownFrame(s)
        \/ ChatMalformedFrame(s)
        \/ ChatReceiveDisconnect(s)
        \/ ChatResume(s)

SpecChat == Init /\ [][NextChat]_vars

\* Either endpoint.  location_manager and chat_manager are two objects that
\* share nothing (lines 189-191), so a run is shown with all its clients on
\* the same route.
SameRoute(s, route) == \A s2 \in Sockets : s2 < s => endpoint[s2] = route

Next ==
    \E s \in Sockets :
        \/ \E route \in {"location", "chat"} : SameRoute(s, route) /\ Accept(s, route)
        \/ AuthDisconnected(s)
        \/ \E f \in AuthFrames : AuthReject(s, f)
        \/ \E f \in AuthFrames : LocAuthenticate(s, f)
        \/ \E v \in VisibilityValues \cup {"absent"}, id \in ClientIds(ws_user[s]) :
                LocUpdate(s, v, id)
        \/ \E id \in ClientIds(ws_user[s]) : LocStop(s, id)
        \/ LocUnknownFrame(s)
        \/ LocMalformedFrame(s)
        \/ LocReceiveDisconnect(s)
        \/ LocResume(s)
        \/ \E f \in AuthFrames : ChatAuthenticate(s, f)
        \/ \E c \in Channels \cup {None}, r \in Users \cup {None},
                id \in ClientIds(ws_user[s]) : ChatMessage(s, c, r, id)
        \/ \E c \in Channels : ChatJoin(s, c)
        \/ \E c \in Channels : ChatLeave(s, c)
        \/ ChatUnknownFrame(s)
        \/ ChatMalformedFrame(s)
        \/ ChatReceiveDisconnect(s)
        \/ ChatResume(s)

Spec == Init /\ [][Next]_vars

\* The visibility decision on its own, lines 57-70: a location's visibility,
\* the roles of two clients, and the value of can_see for each client.
InitCanSee ==
    /\ InitServer
    /\ can_see \in {[kind |-> "asked", visibility |-> v, role |-> r, role2 |-> r2] :
                        v \in VisibilityValues, r \in UserRole, r2 \in UserRole}
    /\ wire = WireOff

Decide ==
    /\ can_see.kind = "asked"
    /\ can_see' = [kind |-> "decided", visibility |-> can_see.visibility,
                   role |-> can_see.role, role2 |-> can_see.role2,
                   value |-> CanSee(can_see.visibility, can_see.role),
                   value2 |-> CanSee(can_see.visibility, can_see.role2)]
    /\ UNCHANGED <<stalled, transport_closed, wire, endpoint, pc, ws_user, auth_frame,
                   exit, task, locVars, chatVars>>

SpecCanSee == InitCanSee /\ [][Decide]_vars

\* The visibility a location update is broadcast under, on its own: the path
\* it came in on, what it says about visibility, its sender, and the role of
\* a client; then the stored visibility and the value of can_see for it.
InitVisibility ==
    /\ InitServer
    /\ wire = WireOff
    /\ can_see \in
          {[kind |-> "update", path |-> "ws", visibility |-> v, user |-> u, role |-> r] :
                v \in Tiers \cup {"absent"}, u \in Users, r \in UserRole}
          \cup
          {[kind |-> "update", path |-> "http", visibility |-> v, user |-> u, role |-> r] :
                v \in Tiers \cup {"absent", "null"}, u \in Users, r \in UserRole}

Resolve ==
    /\ can_see.kind = "update"
    /\ LET stored == IF can_see.path = "ws"
                     THEN FrameVisibility(can_see.visibility, can_see.user)
                     ELSE HttpVisibility(can_see.visibility, can_see.user)
       IN can_see' = [kind |-> "updated", path |-> can_see.path,
                      visibility |-> can_see.visibility, user |-> can_see.user,
                      role |-> can_see.role, stored |-> stored,
                      value |-> CanSee(stored, can_see.role)]
    /\ UNCHANGED <<stalled, transport_closed, wire, endpoint, pc, ws_user, auth_frame,
                   exit, task, locVars, chatVars>>

SpecVisibility == InitVisibility /\ [][Resolve]_vars

\* The location endpoint with its transports.  The peer of a connection may
\* stop reading, after which a send_json to that connection stays suspended
\* (nothing bounds the await of lines 73 and 88); the transport of a
\* connection may close, which its coroutine learns at receive_json: no
\* frame arrives on a closed transport.
Stall(w) ==
    /\ pc[w] \in {"active", "broadcast"}
    /\ w \notin transport_closed
    /\ Cardinality(stalled) < MaxStalled
    /\ w \notin stalled
    /\ stalled' = stalled \cup {w}
    /\ UNCHANGED <<can_see, transport_closed, wire, endpoint, pc, ws_user, auth_frame,
                   exit, task, locVars, chatVars>>

TransportClose(s) ==
    /\ pc[s] \in {"active", "broadcast"}
    /\ s \notin stalled
    /\ Cardinality(transport_closed) < MaxClosing
    /\ s \notin transport_closed
    /\ transport_closed' = transport_closed \cup {s}
    /\ UNCHANGED <<can_see, stalled, wire, endpoint, pc, ws_user, auth_frame,
                   exit, task, locVars, chatVars>>

\* receive_json of a connection whose transport has closed raises
\* WebSocketDisconnect.
LocCloseNoticed(s) ==
    /\ s \in transport_closed
    /\ LocReceiveDisconnect(s)

\* The send a broadcast is suspended in completes, unless its sink is stalled.
LocSendCompletes(s) ==
    /\ pc[s] = "broadcast"
    /\ task[s].kind \in {"location", "stop"}
    /\ task[s].cur[2] \notin stalled
    /\ LocResume(s)

NextLocLive ==
    \E s \in Sockets :
        \/ Accept(s, "location")
        \/ AuthDisconnected(s)
        \/ \E f \in AuthFrames : AuthReject(s, f)
        \/ \E f \in AuthFrames : LocAuthenticate(s, f)
        \/ \E v \in VisibilityValues \cup {"absent"} :
                s \notin transport_closed /\ LocUpdate(s, v, None)
        \/ s \notin transport_closed /\ LocStop(s, None)
        \/ s \notin transport_closed /\ LocUnknownFrame(s)
        \/ s \notin transport_closed /\ LocMalformedFrame(s)
        \/ Stall(s)
        \/ TransportClose(s)
        \/ LocCloseNoticed(s)
        \/ LocSendCompletes(s)

\* The event loop runs every coroutine that is ready: a completed send is
\* resumed, and a receive_json on a closed transport raises.
SpecLocLive ==
    /\ Init
    /\ [][NextLocLive]_vars
    /\ \A s \in Sockets : WF_vars(LocSendCompletes(s))
    /\ \A s \in Sockets : WF_vars(LocCloseNoticed(s))

\* The chat endpoint with the transports observed: clients that log in, join
\* a channel, send messages to it, and go away.
OrderChannels == {c \in Channels : \A d \in Channels : c <= d}

InitOrder == InitServer /\ can_see = NoDecision /\ wire = WireEmpty

NextOrder ==
    \E s \in Sockets :
        \/ Accept(s, "chat")
        \/ \E f \in AuthFrames : ChatAuthenticate(s, f)
        \/ \E c \in OrderChannels : ChatJoin(s, c)
        \/ \E c \in OrderChannels : ChatMessage(s, c, None, None)
        \/ ChatReceiveDisconnect(s)
        \/ ChatResume(s)

SpecOrder == InitOrder /\ [][NextOrder]_vars

\* Both endpoints in one run: clients of the two routes that log in, send
\* public location updates and stop notices, join the first channel and send
\* messages to it, and go away.
NextBoth ==
    \E s \in Sockets :
        \/ \E route \in {"location", "chat"} : Accept(s, route)
        \/ \E f \in AuthFrames : LocAuthenticate(s, f)
        \/ LocUpdate(s, "public", None)
        \/ LocStop(s, None)
        \/ LocReceiveDisconnect(s)
        \/ LocResume(s)
        \/ \E f \in AuthFrames : ChatAuthenticate(s, f)
        \/ \E c \in OrderChannels : ChatJoin(s, c)
        \/ \E c \in OrderChannels : ChatLeave(s, c)
        \/ \E c \in OrderChannels : ChatMessage(s, c, None, None)
        \/ ChatReceiveDisconnect(s)
        \/ ChatResume(s)

SpecBoth == Init /\ [][NextBoth]_vars

(* ---------------------------- properties ------------------------------- *)
\* The registry of the manager a route's endpoint uses.
Registry(route) ==
    IF route = "location" THEN loc_active_connections ELSE chat_active_connections

InBroadcast == {s \in Sockets : pc[s] = "broadcast"}

\* The sinks a broadcast has handed its payload to so far, as a bag and as a
\* set: those that took it and those whose send raised.
Attempts(t) ==
    IF t.kind \in {"location", "stop", "channel", "direct"}
    THEN t.sent (+) t.dropped ELSE EmptyBag
Attempted(t) == BagToSet(Attempts(t))

\* Step predicates: the coroutine of s leaves its receive loop through an
\* except clause (its teardown runs disconnect); the handshake of s succeeds
\* (connect runs); the coroutine of s resumes from a send.
TornDown(s) == pc[s] \in {"active", "broadcast"} /\ pc'[s] = "closed"
Registers(s) == pc[s] = "authenticating" /\ pc'[s] = "active"
Resumes(s) == pc[s] = "broadcast" /\ task'[s] # task[s]

\* A step leaves each of the registries and the subscriptions as they were.
RegistriesUnchanged ==
    /\ loc_active_connections' = loc_active_connections
    /\ loc_user_data' = loc_user_data
    /\ chat_active_connections' = chat_active_connections
    /\ chat_user_data' = chat_user_data
    /\ channel_subscriptions' = channel_subscriptions

\* C1: disconnect(websocket, user) removes the registry mapping of the user
\* only if the stored sink is that same websocket: when a connection whose
\* identity the registry maps to another, newer sink is torn down, the
\* registry still maps the identity to the newer sink and the identity's
\* channel memberships are kept.
C1_DisconnectOnlyOwnSink ==
    [][\A s \in Sockets :
          (/\ TornDown(s)
           /\ DictGet(Registry(endpoint[s]), ws_user[s]) \notin {None, s})
          => RegistriesUnchanged]_vars

\* A connection of the chat route is open and the latest its identity has
\* logged in with, an older connection of the identity has been
\* disconnected, and the registry no longer knows the identity.
C1_Witness ==
    \E w1 \in Sockets, w2 \in Sockets :
        /\ w1 < w2
        /\ endpoint[w1] = "chat" /\ endpoint[w2] = "chat"
        /\ ws_user[w1] = ws_user[w2] /\ ws_user[w2] # None
        /\ exit[w1] \in {"disconnect", "error"}
        /\ pc[w2] = "active"
        /\ DictGet(chat_active_connections, ws_user[w2]) = None

\* No identity is a key of a registry twice.
UniqueKeys(d) == \A i, j \in 1..Len(d) : d[i][1] = d[j][1] => i = j

\* C2: a registry holds at most one sink per identity; connect(ws2, A) for an
\* identity already mapped to ws1 replaces the mapping (the entry of A is ws2,
\* every other entry is as before) and closes no connection; and a broadcast
\* that starts after a connection was superseded never writes to it.
C2_LastWriteWins ==
    /\ [](/\ UniqueKeys(loc_active_connections)
          /\ UniqueKeys(loc_user_data)
          /\ UniqueKeys(chat_active_connections)
          /\ UniqueKeys(chat_user_data)
          /\ \A s \in InBroadcast :
                Attempted(task[s]) \cap SupersededIn(task[s].connected0) = {})
    /\ [][\A s \in Sockets :
            Registers(s) =>
                /\ IF endpoint[s] = "location"
                   THEN /\ DictGet(loc_active_connections', ws_user'[s]) = s
                        /\ \A u \in Users \ {ws_user'[s]} :
                              DictGet(loc_active_connections', u) =
                                  DictGet(loc_active_connections, u)
                   ELSE /\ DictGet(chat_active_connections', ws_user'[s]) = s
                        /\ \A u \in Users \ {ws_user'[s]} :
                              DictGet(chat_active_connections', u) =
                                  DictGet(chat_active_connections, u)
                /\ \A w \in Sockets \ {s} : pc'[w] = pc[w]]_vars

\* A broadcast that began when w1 was already superseded by w2 (w1 still
\* open) has written to w2, the sink the registry holds for their identity.
C2_Witness ==
    \E s \in InBroadcast, w1 \in Sockets, w2 \in Sockets :
        /\ w1 \in SupersededIn(task[s].connected0)
        /\ w2 > w1 /\ ws_user[w2] = ws_user[w1] /\ endpoint[w2] = endpoint[w1]
        /\ pc[w1] # "closed"
        /\ DictGet(Registry(endpoint[w2]), ws_user[w2]) = w2
        /\ w2 \in BagToSet(task[s].sent)

\* Every connection an identity has logged in with on a route has been
\* disconnected.
AllGone(u, route) ==
    /\ \E w \in Sockets : endpoint[w] = route /\ ws_user[w] = u
    /\ \A w \in Sockets : endpoint[w] = route /\ ws_user[w] = u => pc[w] = "closed"

\* C3: after the disconnect of a connection with identity A, A is in no
\* registry of its manager and in no channel's subscriber set (at the step of
\* the disconnect, and for as long as A has no open connection), and a
\* broadcast that starts after a connection was closed never writes to it.
C3_DisconnectRemovesEverywhere ==
    /\ [](/\ \A u \in Users :
                /\ AllGone(u, "location") =>
                      u \notin DictKeys(loc_active_connections)
                          \cup DictKeys(loc_user_data)
                /\ AllGone(u, "chat") =>
                      /\ u \notin DictKeys(chat_active_connections)
                             \cup DictKeys(chat_user_data)
                      /\ \A c \in DOMAIN channel_subscriptions :
                            u \notin channel_subscriptions[c]
          /\ \A s \in InBroadcast : Attempted(task[s]) \cap task[s].closed0 = {})
    /\ [][\A s \in Sockets :
            TornDown(s) =>
                IF endpoint[s] = "location"
                THEN ws_user[s] \notin DictKeys(loc_active_connections')
                                          \cup DictKeys(loc_user_data')
                ELSE /\ ws_user[s] \notin DictKeys(chat_active_connections')
                                             \cup DictKeys(chat_user_data')
                     /\ \A c \in DOMAIN channel_subscriptions' :
                           ws_user[s] \notin channel_subscriptions'[c]]_vars

\* A connection has been disconnected, its identity has no open connection
\* and is in neither channel, and a channel broadcast that began afterwards
\* has written to a subscriber.
C3_Witness ==
    \E w \in Sockets, s \in InBroadcast :
        /\ exit[w] \in {"disconnect", "error"}
        /\ AllGone(ws_user[w], "chat")
        /\ DOMAIN channel_subscriptions = Channels
        /\ task[s].kind = "channel"
        /\ w \in task[s].closed0
        /\ task[s].sent # EmptyBag

\* C8: a connection whose handshake fails (no token, a token that does not
\* decode, a token that is not an access token, a user that does not exist or
\* is inactive, or no first frame at all) is closed by the handshake, is never
\* Active, is never in a registry or a subscriber set, and no frame of it is
\* processed: the step that ends its handshake changes no manager state.
C8_AuthFailureNeverActive ==
    /\ [](\A s \in Sockets :
            /\ auth_frame[s] = "invalid" =>
                  /\ pc[s] = "closed" /\ exit[s] = "auth"
                  /\ ws_user[s] = None
                  /\ task[s] = Idle
            /\ (\/ pc[s] \in {"active", "broadcast"}
                \/ exit[s] \in {"disconnect", "error"}
                \/ s \in DictValues(loc_active_connections)
                \/ s \in DictValues(chat_active_connections)) =>
                  auth_frame[s] = "valid")
    /\ [][\A s \in Sockets :
            auth_frame'[s] = "invalid" /\ auth_frame[s] # "invalid" =>
                /\ pc[s] = "authenticating"
                /\ RegistriesUnchanged]_vars

\* One connection was refused by the handshake while another is Active and
\* registered.
C8_Witness ==
    \E s \in Sockets, s2 \in Sockets :
        /\ auth_frame[s] = "invalid" /\ pc[s] = "closed"
        /\ pc[s2] = "active"
        /\ DictGet(Registry(endpoint[s2]), ws_user[s2]) = s2

\* C9: a frame read in Active that is unrecognized or malformed is ignored:
\* no frame an Active connection reads ends its receive loop in the error
\* clause (the connection stays Active and registered).
C9_BadFrameIgnored ==
    [][\A s \in Sockets : pc[s] = "active" => exit'[s] # "error"]_vars

\* A connection of the location route has left its receive loop through the
\* error clause and is no longer registered.
C9_Witness ==
    \E s \in Sockets :
        /\ endpoint[s] = "location"
        /\ exit[s] = "error"
        /\ ws_user[s] \notin DictKeys(loc_active_connections)

\* The visibility policy as a table of thresholds: the least level of the
\* role hierarchy that may observe each tier (public: any role; verified:
\* verified spotter and above; coordinators: coordinator and above).
TierLevel(tier) ==
    CASE tier = "public" -> 0
      [] tier = "verified" -> 1
      [] tier = "coordinators" -> 2

MayObserve(tier, role) == tier \in Tiers /\ RoleLevel(role) >= TierLevel(tier)

\* The items of a location broadcast's snapshot the policy lets it write to:
\* every registered identity but the sender whose role may observe the tier.
Expected(t) ==
    {i \in 1..Len(t.snapshot) :
        /\ t.snapshot[i][1] # t.sender
        /\ MayObserve(t.visibility, RoleOf(t.snapshot[i][1]))}

\* How many items of its snapshot a location broadcast has gone through.
Position(t) == Len(t.snapshot) - Len(t.items)

\* No send of the broadcast has raised and the registry is as it was when
\* the broadcast began.
LocUndisturbed(t) ==
    /\ t.dropped = EmptyBag
    /\ loc_active_connections = t.snapshot
    /\ DictKeys(loc_user_data) = DictKeys(t.snapshot)

\* C4: a location update from A of tier T is written only to registered
\* connections other than A's whose role passes the policy for T, never to
\* A's own sink and never to a role that fails T; and, all sends succeeding,
\* it is written once to every such connection: to each one the loop has
\* gone past, and none is left when the broadcast returns.
C4_LocationFanOut ==
    /\ [](\A s \in InBroadcast :
            (task[s].kind = "location" /\ task[s].visibility \in Tiers) =>
                LET t == task[s]
                IN /\ \A w \in Attempted(t) :
                         \E i \in Expected(t) : t.snapshot[i][2] = w
                   /\ DictGet(t.snapshot, t.sender) \notin Attempted(t)
                   /\ LocUndisturbed(t) =>
                         /\ \A i \in Expected(t) :
                               i <= Position(t) =>
                                   CopiesIn(t.snapshot[i][2], t.sent) = 1
                         /\ \A w \in Sockets : CopiesIn(w, t.sent) <= 1)
    /\ [][\A s \in Sockets :
            (/\ pc[s] = "broadcast" /\ pc'[s] = "active"
             /\ task[s].kind = "location" /\ task[s].visibility \in Tiers
             /\ LocUndisturbed(task[s]))
            => \A i \in Expected(task[s]) : i <= Position(task[s])]_vars

\* The coordinator A, the spotter B and the verified spotter C are registered;
\* A's update of tier "verified" has gone through the whole snapshot and has
\* been written to C's sink only.
C4_Witness ==
    \E s \in InBroadcast, b \in Users, c \in Users :
        LET t == task[s]
        IN /\ t.kind = "location" /\ t.visibility = "verified"
           /\ RoleOf(t.sender) = COORDINATOR
           /\ RoleOf(b) = SPOTTER /\ RoleOf(c) = VERIFIED_SPOTTER
           /\ DictKeys(t.snapshot) = {t.sender, b, c}
           /\ LocUndisturbed(t)
           /\ \A i \in Expected(t) : i <= Position(t)
           /\ t.sent = SetToBag({DictGet(t.snapshot, c)})

\* C5: the visibility decision equals the policy table on every tier and
\* role (public: every role; verified: verified spotter and above;
\* coordinators: coordinator and above) and is monotonic in the role: a role
\* at least as high as one that may observe may observe too.
C5_CanSeeIsPolicyTable ==
    can_see.kind = "decided" =>
        /\ can_see.visibility \in Tiers =>
              (can_see.value <=>
                  RoleLevel(can_see.role) >= TierLevel(can_see.visibility))
        /\ (RoleLevel(can_see.role2) >= RoleLevel(can_see.role) /\ can_see.value)
              => can_see.value2

\* The decision was made for tier "verified": a spotter may not observe, an
\* admin may.
C5_Witness ==
    /\ can_see.kind = "decided"
    /\ can_see.visibility = "verified"
    /\ can_see.role = SPOTTER /\ ~can_see.value
    /\ can_see.role2 = ADMIN /\ can_see.value2

\* No send of the chat broadcast has raised, and no connection has registered
\* or been disconnected since the broadcast began.
ChatUndisturbed(t) ==
    /\ t.dropped = EmptyBag
    /\ Connected = t.connected0
    /\ Closed = t.closed0

\* The registered sinks of a channel's subscribers.
SubscriberSinks(c) ==
    {DictGet(chat_active_connections, u) : u \in channel_subscriptions[c]} \ {None}

\* C6: every write of a channel message goes to the registered sink of an
\* identity that is in the channel's subscriber set at the time of the write
\* (so not to one that has left, and to the sender only if it is subscribed);
\* and, all sends succeeding, the message is written once to the sink of
\* every subscriber: when the loop has gone through exactly the set, and the
\* broadcast does not return before it has gone through every subscriber.
C6_ChannelFanOut ==
    /\ [](\A s \in InBroadcast :
            (/\ task[s].kind = "channel"
             /\ ChatUndisturbed(task[s])
             /\ channel_subscriptions[task[s].channel] = task[s].set0
             /\ task[s].visited = task[s].set0)
            => task[s].sent = SetToBag(SubscriberSinks(task[s].channel)))
    /\ [][\A s \in Sockets :
            /\ task'[s].kind = "channel" =>
                  \A w \in Sockets :
                      CopiesIn(w, Attempts(task'[s])) > CopiesIn(w, Attempts(task[s]))
                          => w \in SubscriberSinks(task'[s].channel)
            /\ (/\ pc[s] = "broadcast" /\ pc'[s] = "active"
                /\ task[s].kind = "channel"
                /\ ChatUndisturbed(task[s])
                /\ channel_subscriptions[task[s].channel] = task[s].set0)
               => task[s].set0 \subseteq task[s].visited]_vars

\* A subscribed sender's channel message has been written to the sinks of
\* both subscribers of the channel, while a third identity is registered
\* without being subscribed.
C6_Witness ==
    \E s \in InBroadcast :
        LET t == task[s]
        IN /\ t.kind = "channel"
           /\ ChatUndisturbed(t)
           /\ t.sender \in channel_subscriptions[t.channel]
           /\ Cardinality(channel_subscriptions[t.channel]) = 2
           /\ t.visited = channel_subscriptions[t.channel]
           /\ t.sent = SetToBag(SubscriberSinks(t.channel))
           /\ DictKeys(chat_active_connections) \ channel_subscriptions[t.channel] # {}

\* C7: a direct message from a registered sender A to another registered
\* recipient B, all sends succeeding and no connection coming or going
\* meanwhile, is written once to B's sink, then once to A's sink, and to no
\* other sink; the broadcast does not return before the echo.
C7_DirectMessage ==
    /\ [](\A s \in InBroadcast :
            (/\ task[s].kind = "direct"
             /\ task[s].sender # task[s].recipient
             /\ ChatUndisturbed(task[s])
             /\ DictGet(chat_active_connections, task[s].sender) # None
             /\ DictGet(chat_active_connections, task[s].recipient) # None)
            => LET t == task[s]
                   to_b == DictGet(chat_active_connections, t.recipient)
                   to_a == DictGet(chat_active_connections, t.sender)
               IN /\ t.stage \in {"recipient", "echo"}
                  /\ t.stage = "recipient" => t.sent = SetToBag({to_b})
                  /\ t.stage = "echo" => t.sent = SetToBag({to_b, to_a})
                  /\ to_a # to_b)
    /\ [][\A s \in Sockets :
            (/\ pc[s] = "broadcast" /\ pc'[s] = "active"
             /\ task[s].kind = "direct"
             /\ task[s].sender # task[s].recipient
             /\ ChatUndisturbed(task[s])
             /\ DictGet(chat_active_connections, task[s].sender) # None
             /\ DictGet(chat_active_connections, task[s].recipient) # None)
            => task[s].stage = "echo"]_vars

\* A's direct message to B has been written to B's sink and echoed to A's,
\* while a third connection is registered and has been written nothing.
C7_Witness ==
    \E s \in InBroadcast :
        LET t == task[s]
        IN /\ t.kind = "direct" /\ t.stage = "echo"
           /\ t.sender # t.recipient
           /\ ChatUndisturbed(t)
           /\ t.sent = SetToBag({DictGet(chat_active_connections, t.recipient),
                                 DictGet(chat_active_connections, t.sender)})
           /\ None \notin BagToSet(t.sent)
           /\ DictValues(chat_active_connections) \ BagToSet(t.sent) # {}

\* The items left in a location or stop broadcast's snapshot that it has
\* still to write to: for a stop notice every identity but the sender, for a
\* location update those of them that are still in user_data and whose role
\* may observe the tier.
LocRest(t, ud) ==
    {i \in 1..Len(t.items) :
        /\ t.items[i][1] # t.sender
        /\ t.kind = "location" =>
              /\ DictHas(ud, t.items[i][1])
              /\ MayObserve(t.visibility, RoleOf(t.items[i][1]))}

\* The subscriber set of a channel broadcast has the size it had when the
\* iteration began (when it has not, the set iterator raises, whatever the
\* outcome of the send was).
SameSize(t) ==
    t.kind = "channel" =>
        Cardinality(channel_subscriptions[t.channel]) = Cardinality(t.set0)

\* C10: when a send of a broadcast has raised, the sender's coroutine
\* resumes without the exception: it is not closed and takes no except
\* clause, the sender's registry entry and the subscriptions are as before,
\* and the broadcast goes on to the next recipient it has left, returning
\* only when none is left.
C10_SendFailureContained ==
    [][\A s \in Sockets :
          (Resumes(s) /\ task[s].failed /\ SameSize(task[s])) =>
              LET t == task[s]
                  t2 == task'[s]
              IN /\ pc'[s] \in {"broadcast", "active"}
                 /\ exit'[s] = "none"
                 /\ DictGet(loc_active_connections', t.sender) =
                        DictGet(loc_active_connections, t.sender)
                 /\ DictGet(chat_active_connections', t.sender) =
                        DictGet(chat_active_connections, t.sender)
                 /\ channel_subscriptions' = channel_subscriptions
                 /\ t.kind \in {"location", "stop"} =>
                       IF pc'[s] = "active"
                       THEN LocRest(t, loc_user_data') = {}
                       ELSE LET k == Len(t.items) - Len(t2.items)
                            IN /\ k \in LocRest(t, loc_user_data')
                               /\ \A i \in LocRest(t, loc_user_data') : k <= i
                               /\ Attempts(t2) =
                                      Attempts(t) (+) SetToBag({t.items[k][2]})
                 /\ t.kind = "channel" =>
                       IF pc'[s] = "active"
                       THEN channel_subscriptions[t.channel] \cap t.set0
                                \subseteq t.visited
                       ELSE \E u \in channel_subscriptions[t.channel] \ t.visited :
                               /\ t2.visited = t.visited \cup {u}
                               /\ Attempts(t2) = Attempts(t) (+)
                                      SetToBag({DictGet(chat_active_connections, u)})
                 /\ t.kind = "direct" =>
                       IF /\ t.stage = "recipient"
                          /\ DictGet(chat_active_connections, t.sender) # None
                       THEN /\ pc'[s] = "broadcast"
                            /\ Attempts(t2) = Attempts(t) (+)
                                   SetToBag({DictGet(chat_active_connections,
                                                     t.sender)})
                       ELSE pc'[s] = "active"]_vars

\* A send of a broadcast has raised and a later send of the same broadcast
\* has been taken, the sender's connection still registered.
C10_Witness ==
    \E s \in InBroadcast :
        /\ task[s].dropped # EmptyBag
        /\ task[s].sent # EmptyBag
        /\ ~task[s].failed
        /\ DictGet(Registry(endpoint[s]), task[s].sender) = s

\* C11: when a send of a broadcast has raised, the recipient's stale entry is
\* removed from the registry, so that no later send goes to the failed sink:
\* once a broadcast has gone on past a raised send, no sink whose send raised
\* in it is a value of the registry.
C11_FailedSinkUnregistered ==
    \A s \in InBroadcast :
        ~task[s].failed =>
            BagToSet(task[s].dropped) \cap DictValues(Registry(endpoint[s])) = {}

\* A chat broadcast has gone on past a raised send, and the sink whose send
\* raised is still the registry's entry of its identity, which is still a
\* subscriber of a channel.
C11_Witness ==
    \E s \in InBroadcast, w \in Sockets :
        /\ task[s].kind \in {"channel", "direct"}
        /\ ~task[s].failed
        /\ w \in BagToSet(task[s].dropped)
        /\ DictGet(chat_active_connections, ws_user[w]) = w
        /\ \E c \in DOMAIN channel_subscriptions :
              ws_user[w] \in channel_subscriptions[c]

\* C12: a membership change at a suspension point of a broadcast cannot
\* crash the broadcast: no coroutine suspended in a broadcast is closed by
\* the step that resumes it (the broadcast raises nothing into the receive
\* loop).
C12_BroadcastSurvivesMembershipChange ==
    [][\A s \in Sockets : pc[s] = "broadcast" => pc'[s] # "closed"]_vars

\* A channel broadcast is suspended in a send while the channel's subscriber
\* set no longer has the size it had when the iteration began.
C12_Witness ==
    \E s \in InBroadcast :
        /\ task[s].kind = "channel"
        /\ ~SameSize(task[s])
        /\ ~task[s].failed

\* The items of a stop notice's snapshot other than the sender's.
Others(t) == {i \in 1..Len(t.snapshot) : t.snapshot[i][1] # t.sender}

\* C13: stop_sharing by A writes a location_stopped notice that carries
\* A's identity and nothing else to the sink of every connection registered
\* when it began other than A's, whatever the recipient's role, and never to
\* A's own sink: each such sink the loop has gone past has been handed the
\* notice once, and none is left when the broadcast returns.
C13_StopNoticeFanOut ==
    /\ [](\A s \in InBroadcast :
            task[s].kind = "stop" =>
                LET t == task[s]
                IN /\ t.payload = [type |-> "location_stopped",
                                   user_id |-> ws_user[s]]
                   /\ \A w \in Attempted(t) :
                         \E i \in Others(t) : t.snapshot[i][2] = w
                   /\ DictGet(t.snapshot, t.sender) \notin Attempted(t)
                   /\ \A i \in Others(t) :
                         CopiesIn(t.snapshot[i][2], Attempts(t)) =
                             IF i <= Position(t) THEN 1 ELSE 0)
    /\ [][\A s \in Sockets :
            (pc[s] = "broadcast" /\ pc'[s] = "active" /\ task[s].kind = "stop")
            => \A i \in Others(task[s]) : i <= Position(task[s])]_vars

\* The stop notice of a verified spotter has gone through a snapshot of
\* three identities and has been written to the sinks of the other two, a
\* coordinator and a spotter.
C13_Witness ==
    \E s \in InBroadcast, b \in Users, c \in Users :
        LET t == task[s]
        IN /\ t.kind = "stop"
           /\ RoleOf(t.sender) = VERIFIED_SPOTTER
           /\ RoleOf(b) = SPOTTER /\ RoleOf(c) = COORDINATOR
           /\ DictKeys(t.snapshot) = {t.sender, b, c}
           /\ Position(t) = Len(t.snapshot)
           /\ t.sent = SetToBag({DictGet(t.snapshot, b), DictGet(t.snapshot, c)})

\* The sender identity an outbound event carries.
PayloadSender(payload) ==
    IF payload.type = "chat_message" THEN payload.sender_id ELSE payload.user_id

\* C19: every outbound location_update, location_stopped and chat_message
\* carries the identity (and role) its originating connection authenticated
\* at the handshake, whatever sender the client's frame named: frames are
\* drawn with every client-supplied sender in ClientIds.
C19_AuthenticatedSender ==
    \A s \in InBroadcast :
        /\ auth_frame[s] = "valid"
        /\ PayloadSender(task[s].payload) = ws_user[s]
        /\ task[s].kind # "stop" => task[s].payload.role = RoleOf(ws_user[s])

\* A broadcast of a connection is in flight and has been written to a sink
\* with the connection's authenticated identity as its sender, while the
\* frame that began it may have named another identity.
C19_Witness ==
    \E s \in InBroadcast :
        /\ task[s].sent # EmptyBag
        /\ PayloadSender(task[s].payload) = ws_user[s]
        /\ ClientIds(ws_user[s]) \ {None, ws_user[s]} # {}

\* C14: a channel message whose sender's role is below the channel's
\* min_role is written to no sink.
C14_BelowMinRoleNotBroadcast ==
    \A s \in InBroadcast :
        (task[s].kind = "channel" /\ task[s].sent # EmptyBag) =>
            SendAllowed(RoleOf(task[s].sender), MinRole(task[s].channel))

\* A spotter's message frame to the coordinators' channel has been written
\* to the sink of another subscriber.
C14_Witness ==
    \E s \in InBroadcast :
        /\ task[s].kind = "channel"
        /\ RoleOf(task[s].sender) = SPOTTER
        /\ MinRole(task[s].channel) = COORDINATOR
        /\ \E w \in BagToSet(task[s].sent) : ws_user[w] # task[s].sender

\* C15: wherever a join_channel frame can be processed (the connection is
\* Active and is the registered connection of its identity), processing it
\* for any channel leaves the connection's identity in that channel's
\* subscription set, whatever the role of the user and the min_role of the
\* channel.
C15_JoinAlwaysAdmits ==
    \A s \in Sockets, c \in Channels :
        ( /\ pc[s] = "active"
          /\ endpoint[s] = "chat"
          /\ DictGet(chat_active_connections, ws_user[s]) = s ) =>
            LET joined == JoinChannel(channel_subscriptions,
                                      chat_active_connections, s, c)
            IN /\ c \in DOMAIN joined
               /\ ws_user[s] \in joined[c]

\* A spotter is subscribed to the coordinators' channel.
C15_Witness ==
    \E c \in DOMAIN channel_subscriptions, u \in Users :
        /\ u \in channel_subscriptions[c]
        /\ ~SendAllowed(RoleOf(u), MinRole(c))
        /\ DictHas(chat_active_connections, u)

\* The sinks a step hands the payload of the chat broadcast of s to.
NewlyWritten(s) ==
    BagToSet(Attempts(task'[s]) (-)
             (IF pc[s] = "broadcast" THEN Attempts(task[s]) ELSE EmptyBag))

\* C20: chat delivery is non-durable.  Wherever a message frame can be
\* processed, a direct message whose recipient has no connection goes
\* straight to the echo or returns, and a channel message starts without an
\* error whoever of the members has no connection.  Every write of a chat
\* broadcast goes to a sink that is in the registry when it is written; in a
\* channel broadcast it is the sink of a member the loop reaches in that
\* step, each member being reached once; in a direct message the recipient
\* is resolved only when the broadcast begins, so a write after a suspension
\* is the echo to the sender's sink: a recipient that registers later is not
\* written.
C20_NonDurable ==
    /\ [](\A s \in Sockets :
            (pc[s] = "active" /\ endpoint[s] = "chat") =>
                /\ \A r \in Users :
                      DictGet(chat_active_connections, r) = None =>
                          \A t \in ChatStart(ws_user[s], None, r, channel_subscriptions,
                                             chat_active_connections) :
                              t # Raised /\ (t = Idle \/ t.stage = "echo")
                /\ \A c \in Channels :
                      Raised \notin ChatStart(ws_user[s], c, None, channel_subscriptions,
                                              chat_active_connections))
    /\ [][\A s \in Sockets :
            (pc'[s] = "broadcast" /\ task'[s].kind \in {"channel", "direct"}) =>
                /\ NewlyWritten(s) \subseteq DictValues(chat_active_connections)
                /\ task'[s].kind = "channel" =>
                      \A w \in NewlyWritten(s) :
                          /\ ws_user[w] \in task'[s].visited
                          /\ pc[s] = "broadcast" => ws_user[w] \notin task[s].visited
                /\ task'[s].kind = "direct" =>
                      \A w \in NewlyWritten(s) :
                          IF pc[s] = "broadcast"
                          THEN w = DictGet(chat_active_connections, task'[s].sender)
                          ELSE w \in {DictGet(chat_active_connections, task'[s].recipient),
                                      DictGet(chat_active_connections, task'[s].sender)}]_vars

\* A direct message has been echoed to its sender and written to nobody
\* else, its recipient having had no connection; the recipient has registered
\* since and the broadcast is still in flight.
C20_Witness ==
    \E s \in InBroadcast :
        /\ task[s].kind = "direct"
        /\ task[s].stage = "echo"
        /\ task[s].recipient # task[s].sender
        /\ BagToSet(Attempts(task[s])) = {s}
        /\ DictHas(chat_active_connections, task[s].recipient)

\* The registry of the location route no longer maps the identity of s to
\* the sink of s: the identity is absent, or a newer connection holds it.
Released(s) == DictGet(loc_active_connections, ws_user[s]) # s

\* C17: a broadcast that is suspended in a send returns, even when the send
\* to one recipient never completes: the sender's coroutine gets back to its
\* receive loop (or ends).
C17_StalledRecipientNoStall ==
    \A s \in Sockets : (pc[s] = "broadcast") ~> (pc[s] # "broadcast")

\* A broadcast is suspended in a send to a stalled sink while recipients it
\* would write to are left in its snapshot.
C17_Witness ==
    \E s \in InBroadcast :
        /\ task[s].cur[2] \in stalled
        /\ FirstEligible(task[s].kind, task[s].sender, task[s].visibility,
                         loc_user_data, task[s].items) # 0

\* C16: once the transport of an Active connection has closed, or its
\* receive loop has ended, its identity is eventually released from the
\* registry (a newer connection of the same identity apart).
C16_ClosedConnectionReleased ==
    \A s \in Sockets :
        (s \in transport_closed \/ (pc[s] = "closed" /\ exit[s] # "auth"))
            ~> Released(s)

\* The transport of a connection has closed while its coroutine is suspended
\* in a send to a stalled sink, and the registry still maps its identity to
\* its sink.
C16_Witness ==
    \E s \in transport_closed :
        /\ pc[s] = "broadcast"
        /\ task[s].cur[2] \in stalled
        /\ ~Released(s)

C21_NoWriteAfterTeardown ==
    [][\A s \in Sockets :
          pc'[s] = "broadcast" =>
              \A w \in NewlyWritten(s) : pc[w] # "closed"]_vars

\* A location or stop broadcast is suspended in a send; the next entry of
\* its snapshot that it will write to is the sink of a connection that was
\* open when the snapshot was taken and whose teardown has completed since.
C21_Witness ==
    \E s \in InBroadcast :
        /\ task[s].kind \in {"location", "stop"}
        /\ LET i == FirstEligible(task[s].kind, task[s].sender, task[s].visibility,
                                  loc_user_data, task[s].items)
           IN /\ i # 0
              /\ task[s].items[i][2] \notin task[s].closed0
              /\ pc[task[s].items[i][2]] = "closed"

\* C22: connect returns the sink the registry held for the identity before
\* the call, and nothing when it held none: wherever a handshake can
\* succeed, for every identity it can succeed with.
C22_ConnectReturnsPrevious ==
    \A s \in Sockets :
        pc[s] = "authenticating" =>
            \A f \in AuthFrames :
                AuthUser(f) # None =>
                    ConnectReturn(Registry(endpoint[s]), AuthUser(f))
                        = DictGet(Registry(endpoint[s]), AuthUser(f))

\* A connection has been registered over the open connection of the same
\* identity: the replaced sink is still open and is in no registry.
C22_Witness ==
    \E s \in Sockets, w \in Sockets :
        /\ w # s
        /\ endpoint[w] = endpoint[s]
        /\ ws_user[w] = ws_user[s]
        /\ pc[w] = "active"
        /\ pc[s] = "active"
        /\ DictGet(Registry(endpoint[s]), ws_user[s]) = s

\* C23: a message frame that names both a channel and a recipient is
\* dropped: wherever such a frame can be processed, broadcast_message writes
\* to no sink and the call returns at once.
C23_BothFieldsDropped ==
    \A s \in Sockets :
        (pc[s] = "active" /\ endpoint[s] = "chat") =>
            \A c \in Channels, r \in Users :
                ChatStart(ws_user[s], c, r, channel_subscriptions,
                          chat_active_connections) = {Idle}

\* A connection can send a frame naming a channel and a recipient who is not
\* subscribed to it, and the frame is taken as a channel message: it is
\* written to the sink of a subscriber other than the sender.
C23_Witness ==
    \E s \in Sockets, c \in Channels, r \in Users :
        /\ pc[s] = "active" /\ endpoint[s] = "chat"
        /\ c \in DOMAIN channel_subscriptions
        /\ r \notin channel_subscriptions[c]
        /\ \E t \in ChatStart(ws_user[s], c, r, channel_subscriptions,
                              chat_active_connections) :
              /\ t \notin {Idle, Raised}
              /\ t.kind = "channel"
              /\ \E w \in BagToSet(t.sent) : ws_user[w] \notin {ws_user[s], r}

\* The sinks either registry holds.
Registered == DictValues(loc_active_connections) \cup DictValues(chat_active_connections)

\* The steps of a coroutine's position that the endpoints allow.
LifecycleSteps ==
    {<<"connecting", "authenticating">>,
     <<"authenticating", "active">>, <<"authenticating", "closed">>,
     <<"active", "broadcast">>, <<"broadcast", "active">>,
     <<"active", "closed">>, <<"broadcast", "closed">>}

LifecycleStep ==
    /\ \A s \in Sockets :
          /\ pc'[s] # pc[s] => <<pc[s], pc'[s]>> \in LifecycleSteps
          /\ pc[s] = "closed" =>
                /\ pc'[s] = "closed"
                /\ task'[s] = task[s]
                /\ ws_user'[s] = ws_user[s]
                /\ exit'[s] = exit[s]
                /\ endpoint'[s] = endpoint[s]
          /\ (s \in Registered' /\ s \notin Registered) => Registers(s)
    /\ (\A s \in Sockets : pc[s] \notin {"active", "broadcast"}) =>
          /\ task' = task
          /\ channel_subscriptions' = channel_subscriptions

C25_MembershipRebuiltOnReconnect ==
    [][\A s \in Sockets :
          (Registers(s) /\ endpoint[s] = "chat") =>
              \A c \in DOMAIN channel_subscriptions', sender \in Users :
                  \A t \in ChatStart(sender, c, None, channel_subscriptions',
                                     chat_active_connections') :
                      t = Idle \/ s \notin Attempted(t)]_vars

\* A channel broadcast has been written to the sink of a connection that
\* registered after the broadcast began, over an open connection of the same
\* identity; the identity was in the channel's set when the broadcast began.
C25_Witness ==
    \E s \in InBroadcast, w \in Sockets, old \in Sockets :
        /\ task[s].kind = "channel"
        /\ w \in BagToSet(task[s].sent)
        /\ w \notin task[s].connected0
        /\ ws_user[w] \in task[s].set0
        /\ old < w /\ ws_user[old] = ws_user[w] /\ pc[old] = "active"

\* C26: no channel key of channel_subscriptions maps to an empty set.
C26_NoEmptyChannel ==
    \A c \in DOMAIN channel_subscriptions : channel_subscriptions[c] # {}

\* A channel whose only member has disconnected still has its key, while
\* another connection is Active.
C26_Witness ==
    \E c \in DOMAIN channel_subscriptions, w \in Sockets, s \in Sockets :
        /\ channel_subscriptions[c] = {}
        /\ pc[w] = "closed" /\ exit[w] = "disconnect"
        /\ pc[s] = "active"

\* C28: an Active connection that is the most recently registered one of
\* its identity on its route is the sink the registry holds for that identity.
C28_ActiveIsRegistered ==
    \A s \in Sockets :
        (pc[s] \in {"active", "broadcast"} /\ s \notin SupersededIn(Connected)) =>
            DictGet(Registry(endpoint[s]), ws_user[s]) = s

\* The latest connection of an identity is Active on the chat route and the
\* registry has no entry for the identity, an earlier connection of the
\* identity having left its receive loop.
C28_Witness ==
    \E s \in Sockets, w \in Sockets :
        /\ endpoint[s] = "chat" /\ pc[s] = "active"
        /\ s \notin SupersededIn(Connected)
        /\ w < s /\ ws_user[w] = ws_user[s] /\ endpoint[w] = "chat"
        /\ pc[w] = "closed" /\ exit[w] = "disconnect"
        /\ ~DictHas(chat_active_connections, ws_user[s])

\* C29: every subscriber of every channel is a key of the chat registry.
C29_SubscribersRegistered ==
    \A c \in DOMAIN channel_subscriptions :
        channel_subscriptions[c] \subseteq DictKeys(chat_active_connections)

\* A connection is Active whose identity the registry no longer holds (a
\* later connection of the identity has come and gone), so that its joins
\* subscribe nobody, while a channel has a subscriber.
C29_Witness ==
    \E s \in Sockets, w \in Sockets, c \in DOMAIN channel_subscriptions :
        /\ endpoint[s] = "chat" /\ pc[s] = "active"
        /\ w > s /\ ws_user[w] = ws_user[s] /\ pc[w] = "closed"
        /\ ~DictHas(chat_active_connections, ws_user[s])
        /\ channel_subscriptions[c] # {}

\* C30: one broadcast writes its payload to each sink at most once.
C30_AtMostOneCopy ==
    \A s \in InBroadcast :
        \A w \in Sockets : CopiesIn(w, task[s].sent) <= 1

\* A direct message whose recipient is its sender has been written to the
\* recipient's sink and echoed to the sender's.
C30_Witness ==
    \E s \in InBroadcast :
        /\ task[s].kind = "direct"
        /\ task[s].recipient = task[s].sender
        /\ task[s].stage = "echo"
        /\ task[s].dropped = EmptyBag
        /\ task[s].sent = SetToBag({s}) (+) SetToBag({s})

\* C27: a location update that says nothing about visibility is stored, and
\* gated for every client, under the sender's share_location_with, on the
\* WebSocket path and on the HTTP path.
C27_DefaultVisibility ==
    (can_see.kind = "updated" /\ can_see.visibility = "absent") =>
        /\ can_see.stored = ShareLocationWith(can_see.user)
        /\ can_see.value = CanSee(ShareLocationWith(can_see.user), can_see.role)

\* An update without visibility, posted over HTTP by a user who shares with
\* coordinators only, is shown to a spotter.
C27_Witness ==
    /\ can_see.kind = "updated"
    /\ can_see.path = "http"
    /\ can_see.visibility = "absent"
    /\ ShareLocationWith(can_see.user) = "coordinators"
    /\ can_see.role = SPOTTER
    /\ can_see.value

\* C31: a location update whose visibility is none of the three tiers is
\* written to no sink: wherever such a frame can be processed the broadcast
\* returns without a send, and no location broadcast in flight has such a
\* visibility.
C31_VisibilityFailsClosed ==
    /\ \A s \in InBroadcast :
          task[s].kind = "location" => task[s].visibility \in Tiers
    /\ \A s \in Sockets :
          (pc[s] = "active" /\ endpoint[s] = "location") =>
              \A v \in VisibilityValues \ Tiers :
                  LocRun(LocStart("location", ws_user[s],
                                  FrameVisibility(v, ws_user[s])),
                         loc_user_data) = {Idle}

\* A connection can send an update with an unknown visibility while a
\* coordinator, who may see every tier, is registered: the update goes to
\* nobody, the same update under the coordinators tier would be sent.
C31_Witness ==
    \E s \in Sockets, v \in VisibilityValues \ Tiers :
        /\ pc[s] = "active" /\ endpoint[s] = "location"
        /\ \E u \in DictKeys(loc_active_connections) \ {ws_user[s]} :
              /\ DictHas(loc_user_data, u)
              /\ RoleOf(u) = COORDINATOR
        /\ LocRun(LocStart("location", ws_user[s], v), loc_user_data) = {Idle}
        /\ LocRun(LocStart("location", ws_user[s], "coordinators"),
                  loc_user_data) # {Idle}

\* C32: join_channel and leave_channel called with a websocket that is not a
\* value of the registry (never registered, removed, or superseded) return
\* the subscriptions as they were, for every channel.
C32_UnregisteredJoinLeaveIgnored ==
    \A s \in Sockets :
        s \notin DictValues(chat_active_connections) =>
            \A c \in Channels :
                /\ JoinChannel(channel_subscriptions, chat_active_connections, s, c)
                        = channel_subscriptions
                /\ LeaveChannel(channel_subscriptions, chat_active_connections, s, c)
                        = channel_subscriptions

\* A superseded connection is Active and can send join and leave frames for
\* a channel its identity is subscribed to through the newer connection.
C32_Witness ==
    \E s \in Sockets, c \in DOMAIN channel_subscriptions :
        /\ pc[s] = "active" /\ endpoint[s] = "chat"
        /\ DictGet(chat_active_connections, ws_user[s]) \notin {None, s}
        /\ ws_user[s] \in channel_subscriptions[c]
        /\ \E d \in Channels : d \notin DOMAIN channel_subscriptions

\* The subscriptions after join_channel: the identity added to the one set.
JoinEffect(subs, u, c) ==
    [d \in DOMAIN subs \cup {c} |->
        IF d = c THEN (IF c \in DOMAIN subs THEN subs[c] ELSE {}) \cup {u}
        ELSE subs[d]]

\* The subscriptions after leave_channel: the identity taken out of the one
\* set, if there is one.
LeaveEffect(subs, u, c) ==
    [d \in DOMAIN subs |-> IF d = c THEN subs[d] \ {u} ELSE subs[d]]

\* C33: for the registered connection of identity A, leave_channel(C) takes
\* A out of C's set and join_channel(C) puts A into C's set; every other set,
\* every other member of C, and the registry are as they were: a step that
\* changes the subscriptions and no coroutine's position leaves both
\* registry dicts unchanged.
C33_JoinLeaveFrame ==
    /\ [](\A s \in Sockets :
            (pc[s] = "active" /\ endpoint[s] = "chat"
                /\ DictGet(chat_active_connections, ws_user[s]) = s) =>
                \A c \in Channels :
                    /\ JoinChannel(channel_subscriptions, chat_active_connections, s, c)
                            = JoinEffect(channel_subscriptions, ws_user[s], c)
                    /\ LeaveChannel(channel_subscriptions, chat_active_connections, s, c)
                            = LeaveEffect(channel_subscriptions, ws_user[s], c))
    /\ [][(channel_subscriptions' # channel_subscriptions /\ pc' = pc) =>
              /\ chat_active_connections' = chat_active_connections
              /\ chat_user_data' = chat_user_data
              /\ \E s \in Sockets, c \in Channels :
                    \/ channel_subscriptions'
                          = JoinEffect(channel_subscriptions, ws_user[s], c)
                    \/ channel_subscriptions'
                          = LeaveEffect(channel_subscriptions, ws_user[s], c)]_vars

\* An identity is subscribed to one channel and not to another that has
\* its key and another member, as after it left that one.
C33_Witness ==
    \E u \in DictKeys(chat_active_connections), v \in Users,
       c \in DOMAIN channel_subscriptions, d \in DOMAIN channel_subscriptions :
        /\ c # d /\ u # v
        /\ u \notin channel_subscriptions[c]
        /\ u \in channel_subscriptions[d]
        /\ v \in channel_subscriptions[c]
        /\ v \in channel_subscriptions[d]

\* The coroutine of s took a step: its position, its task or its exit changed.
Moved(s) == pc'[s] # pc[s] \/ task'[s] # task[s] \/ exit'[s] # exit[s]

IndependentStep ==
    /\ locVars' # locVars => chatVars' = chatVars
    /\ \A s \in Sockets : Moved(s) =>
            /\ endpoint'[s] = "chat" => locVars' = locVars
            /\ endpoint'[s] = "location" => chatVars' = chatVars

\* C34: the two managers are independent.  No step changes both; a step of a
\* chat connection (connect, disconnect, join, leave, a broadcast_message
\* and its sends) leaves LocationManager's registry and user data as they
\* were, and a step of a location connection (connect, disconnect, a
\* broadcast and its sends, the eviction after a failed send included)
\* leaves ChatManager's registry, user data and subscriptions as they were.
C34_ManagersIndependent == [][IndependentStep]_vars

\* An identity with a connection on each route; its location connection was
\* evicted by a failed send of another's broadcast or has torn down, and
\* its chat connection is still registered and subscribed.
C34_Witness ==
    \E s \in Sockets, w \in Sockets, c \in Channels :
        /\ endpoint[s] = "location"
        /\ pc[s] = "closed"
        /\ exit[s] = "disconnect"
        /\ endpoint[w] = "chat"
        /\ pc[w] = "active"
        /\ ws_user[w] = ws_user[s]
        /\ ~DictHas(loc_active_connections, ws_user[s])
        /\ DictGet(chat_active_connections, ws_user[w]) = w
        /\ DictHas(chat_user_data, ws_user[w])
        /\ c \in DOMAIN channel_subscriptions
        /\ ws_user[w] \in channel_subscriptions[c]
        /\ loc_active_connections # <<>>

\* C35: in each manager the registry and the user data have the same keys in
\* every reachable state, so every registered identity has role data; an item
\* of a broadcast's snapshot that broadcast_location passes over for lack of
\* role data belongs to an identity that is no longer registered.
C35_RegistryKeysAgree ==
    /\ DictKeys(loc_active_connections) = DictKeys(loc_user_data)
    /\ DictKeys(chat_active_connections) = DictKeys(chat_user_data)
    /\ \A u \in DictKeys(loc_active_connections) : DictGet(loc_user_data, u) # None
    /\ \A s \in InBroadcast : task[s].kind = "location" =>
            \A i \in 1..Len(task[s].items) :
                DictGet(loc_user_data, task[s].items[i][1]) = None =>
                    ~DictHas(loc_active_connections, task[s].items[i][1])

\* A location broadcast suspended in a send while an identity further on in
\* its snapshot has disconnected: the item has no role data and is passed
\* over; the identities still registered all have theirs.
C35_Witness ==
    \E s \in InBroadcast :
        /\ task[s].kind = "location"
        /\ loc_active_connections # <<>>
        /\ \E i \in 1..Len(task[s].items) :
              /\ task[s].items[i][1] # task[s].sender
              /\ DictGet(loc_user_data, task[s].items[i][1]) = None
              /\ pc[task[s].items[i][2]] = "closed"
              /\ exit[task[s].items[i][2]] = "disconnect"

\* disconnect(websocket, user) called on the state a first call left, for
\* either manager: the second call raises nothing and returns what it was
\* given.
LocDisconnectTwice(ac, ud, websocket, u) ==
    LET ac1 == LocDisconnectAC(ac, websocket, u)
        ud1 == LocDisconnectUD(ud, websocket, u)
    IN IF ac1 = KeyError \/ ud1 = KeyError THEN TRUE
       ELSE /\ LocDisconnectAC(ac1, websocket, u) = ac1
            /\ LocDisconnectUD(ud1, websocket, u) = ud1

ChatDisconnectTwice(ac, ud, subs, websocket, u) ==
    LET ac1 == ChatDisconnectAC(ac, websocket, u)
        ud1 == ChatDisconnectUD(ud, websocket, u)
        subs1 == ChatDisconnectSubs(subs, websocket, u)
    IN /\ ChatDisconnectAC(ac1, websocket, u) = ac1
       /\ ChatDisconnectUD(ud1, websocket, u) = ud1
       /\ ChatDisconnectSubs(subs1, websocket, u) = subs1

\* The endpoint of s returns and the identity of s is in no registry: the
\* disconnect of its teardown is not the first since its connect.
SecondDisconnect(s) ==
    /\ pc[s] \in {"active", "broadcast"}
    /\ pc'[s] = "closed"
    /\ ~DictHas(IF endpoint[s] = "location" THEN loc_active_connections
                ELSE chat_active_connections, ws_user[s])

\* C36: disconnect is idempotent.  In every reachable state, for every
\* websocket and user, a second disconnect(websocket, user) right after a
\* first raises nothing and returns the registry, the user data and the
\* channel sets the first call left; and the teardown of a connection whose
\* identity has already been removed (evicted by the failure handler of
\* broadcast_location, or removed by the teardown of a connection of the
\* same identity) changes neither manager.
C36_DisconnectIdempotent ==
    /\ [](\A w \in Sockets, u \in Users :
            /\ LocDisconnectTwice(loc_active_connections, loc_user_data, w, u)
            /\ ChatDisconnectTwice(chat_active_connections, chat_user_data,
                                   channel_subscriptions, w, u))
    /\ [][\A s \in Sockets : SecondDisconnect(s) =>
                locVars' = locVars /\ chatVars' = chatVars]_vars

\* A recipient that the failure handler of a broadcast still in flight has
\* evicted and whose own endpoint has since returned through its except
\* clause; no other connection has carried its identity.
C36_Witness ==
    \E s \in InBroadcast, w \in Sockets :
        /\ task[s].kind = "location"
        /\ BagIn(w, task[s].dropped)
        /\ task[s].cur[2] # w
        /\ w \notin task[s].closed0
        /\ pc[w] = "closed"
        /\ exit[w] = "disconnect"
        /\ \A x \in Sockets \ {w} : ws_user[x] # ws_user[w]
        /\ ~DictHas(loc_active_connections, ws_user[w])
        /\ ~DictHas(loc_user_data, ws_user[w])
        /\ loc_active_connections # <<>>

====
